---- MODULE Spec2Model ----
(***************************************************************************)
(* ComplaintService: POST /api/v1/complaints validates a payload, sends    *)
(* one message through the module-level ServiceBusComplaintSender and      *)
(* answers 201 / 422 / 500; GET /api/v1/health answers from configuration. *)
(*                                                                         *)
(* Every request is one asyncio task.  A task runs without interruption    *)
(* between two awaits that really suspend (the transport's I/O: opening    *)
(* the queue sender, send_messages, closing the queue sender, closing the  *)
(* client), so each action below is the code between two such awaits.      *)
(* ServiceBusClient.from_connection_string is synchronous, so connect()    *)
(* does not suspend.                                                       *)
(***************************************************************************)
EXTENDS Integers, Sequences, FiniteSets, TLC

\* ---------------------------------------------------------------- bounds
\* Number of requests in a run; they may all be in flight at once.
NumReq == 2

Req == 1..NumReq

\* ------------------------------------------------- configuration (config.py)
MinLength == 1
MaxLength == 2000
QueueName == "complaints-event"
AppName == "ComplaintService"
AppVersion == "0.1.0"

\* ------------------------------------------------------------ input space
\* A raw bookingId is absent, malformed text, or one of the textual forms of
\* a UUID value; UUID() parses every form to the value, str() prints the
\* canonical (lower-case, hyphenated) form only.  It is what the payload
\* holds under the alias bookingId or, without it, under the field name
\* booking_id (populate_by_name).
UuidForms == {"canonical", "upper"}
AbsentField == [form |-> "absent", val |-> "-"]
MalformedUuid == [form |-> "malformed", val |-> "-"]
UuidTexts == {[form |-> "upper", val |-> "b"]}
BookingIds == {AbsentField, MalformedUuid} \cup UuidTexts

\* A raw description is absent or a string, represented by its length.
AbsentDescription == [kind |-> "absent", len |-> 0]
DescLens == {0, MinLength, MaxLength, MaxLength + 1}
Descriptions == {AbsentDescription} \cup [kind : {"str"}, len : DescLens]

\* The payload's other fields: none, or a timestamp of the caller's and the
\* field of test_create_complaint_extra_fields_ignored.
NoExtra == {}
Extras ==
    {NoExtra,
     {[name |-> "timestamp", value |-> "1999-12-31T00:00:00+00:00"],
      [name |-> "extraField", value |-> "should be ignored"]}}

Payloads == [bookingId : BookingIds, description : Descriptions, extra : {NoExtra}]
NoPayload == [bookingId |-> AbsentField, description |-> AbsentDescription,
              extra |-> NoExtra]

\* Errors the transport (Azure SDK) may raise.
ConnectErrors == {"bad connection string"}
OpenErrors == {"link refused"}
SendErrors == {"broker unreachable", "message rejected"}
CloseErrors == {"close failed"}
AuditErrors == {"log queue unavailable"}

\* ---------------------------------------------------------------- schemas
IsUuidText(b) == b.form \in UuidForms
ParseUUID(b) == b.val
StrUUID(u) == [form |-> "canonical", val |-> u]
IsoFormat(t) == [iso |-> t]

BookingIdErrorsPresenceOnly(b) ==
    IF b.form = "absent" THEN {[field |-> "bookingId", kind |-> "missing"]} ELSE {}

BookingIdErrors(b) ==
    IF b.form = "absent" THEN {[field |-> "bookingId", kind |-> "missing"]}
    ELSE IF ~IsUuidText(b) THEN {[field |-> "bookingId", kind |-> "uuid_parsing"]}
    ELSE {}

DescriptionErrorsOffByOne(d) ==
    IF d.kind = "absent" THEN {[field |-> "description", kind |-> "missing"]}
    ELSE IF d.len < MinLength THEN {[field |-> "description", kind |-> "string_too_short"]}
    ELSE IF d.len >= MaxLength THEN {[field |-> "description", kind |-> "string_too_long"]}
    ELSE {}

DescriptionErrors(d) ==
    IF d.kind = "absent" THEN {[field |-> "description", kind |-> "missing"]}
    ELSE IF d.len < MinLength THEN {[field |-> "description", kind |-> "string_too_short"]}
    ELSE IF d.len > MaxLength THEN {[field |-> "description", kind |-> "string_too_long"]}
    ELSE {}

ComplaintRequestErrorsForbidExtra(p) ==
    BookingIdErrors(p.bookingId) \cup DescriptionErrors(p.description)
        \cup IF p.extra # NoExtra THEN {[field |-> "extra", kind |-> "extra_forbidden"]} ELSE {}

\* ComplaintRequest: the errors of its two fields; model_config leaves
\* "extra" at its default, so other fields of the payload are dropped.
ComplaintRequestErrors(p) == BookingIdErrors(p.bookingId) \cup DescriptionErrors(p.description)

\* --------------------------------------------------------------- responses
SuccessMessage == "Complaint submitted successfully"
FailDetail == "Failed to submit complaint. Please try again later."
NoResp == [status |-> 0]
Resp422(errs) == [status |-> 422, detail |-> errs]
ErrorDetailLeak(e) == e.text

\* The detail of the HTTPException raised by the except block for caught e.
ErrorDetail(e) == FailDetail
Resp500(e) == [status |-> 500, detail |-> ErrorDetail(e)]
ComplaintResponseSecondClock(u, t) ==
    [status |-> 201, message |-> SuccessMessage, bookingId |-> StrUUID(u), timestamp |-> t + 1]

ComplaintResponse(u, t) ==
    [status |-> 201, message |-> SuccessMessage, bookingId |-> StrUUID(u), timestamp |-> t]
HealthResponse == [status |-> 200, health |-> "healthy", service |-> AppName, version |-> AppVersion]

\* -------------------------------------------------------------- exceptions
NoExc == [kind |-> "none", text |-> ""]
Exc(k, t) == [kind |-> k, text |-> t]
NotConnected == Exc("not_connected", "Service Bus client is not connected")

\* ------------------------------------------------------------------- state
NoHandle == 0

VARIABLES
    req,       \* per request: position, payload, locals, calls made, response
    client,    \* complaint_sender._client: NoHandle or a client handle
    handles,   \* per client handle: state and number of close() calls
    now,       \* the clock read by datetime.now
    health,    \* response of the health request answered in the last step
    unifiedLogs, \* settings: is unified_logs_storage_connection_string set
    api,       \* direct calls of the sender's methods and what they did
    home       \* response of the GET / request answered in the last step

vars == <<req, client, handles, now, health, unifiedLogs, api, home>>

\* tasks: the request's BackgroundTasks; ran: how many of them have run;
\* audited: the events they put on the unified log queue.
IdleReq ==
    [pc |-> "idle", payload |-> NoPayload, ts |-> 0, via |-> NoHandle,
     target |-> NoHandle, exc |-> NoExc, trace |-> <<>>, sent |-> <<>>,
     resp |-> NoResp, tasks |-> <<>>, ran |-> 0, audited |-> <<>>]

\* calls: one record per direct call; senders: queue senders requested from
\* the transport; sent: messages the transport accepted.
NoCalls == [calls |-> <<>>, senders |-> <<>>, sent |-> <<>>]

\* The state after import, for the configurations in cfgs.
InitWith(cfgs) ==
    /\ req = [r \in Req |-> IdleReq]
    /\ client = NoHandle
    /\ handles = [h \in Req |-> [state |-> "absent", closes |-> 0]]
    /\ now = 1
    /\ health = NoResp
    /\ unifiedLogs \in cfgs
    /\ api = NoCalls
    /\ home = NoResp

\* The default configuration: unified logging is disabled.
Init == InitWith({FALSE})

\* ------------------------------------------- ServiceBusComplaintSender
\* connect(): a new client handle h replaces _client, or the error is logged
\* and re-raised and _client keeps its old value.
connectSwallow(cl, h, outcome) ==
    IF outcome = "ok"
    THEN [client |-> h, created |-> TRUE, raised |-> NoExc]
    ELSE [client |-> cl, created |-> FALSE, raised |-> NoExc]

connect(cl, h, outcome) ==
    IF outcome = "ok"
    THEN [client |-> h, created |-> TRUE, raised |-> NoExc]
    ELSE [client |-> cl, created |-> FALSE, raised |-> Exc("connect", outcome)]

MessageBodyRawId(q) ==
    [bookingId |-> q.payload.bookingId,
     description |-> q.payload.description,
     timestamp |-> IsoFormat(q.ts)]

\* The body of the message built by send_complaint for request record q.
MessageBody(q) ==
    [bookingId |-> StrUUID(ParseUUID(q.payload.bookingId)),
     description |-> q.payload.description,
     timestamp |-> IsoFormat(q.ts)]

ServiceBusMessage(q) ==
    [body |-> MessageBody(q), content_type |-> "application/json", queue |-> QueueName]

\* What an operation on a queue sender obtained from handle h can do: a
\* sender whose client has been closed is shut down and only raises.
TransportOutcomes(h, errors) ==
    IF handles[h].state = "open" THEN {"ok"} \cup errors ELSE errors

\* ------------------------------------------------------ create_complaint
\* get_unified_log_sender(): the notifier, or none when its queue is not
\* configured.
NoNotifier == "none"
get_unified_log_sender == IF unifiedLogs THEN "unified_logs" ELSE NoNotifier

\* The keyword arguments of the two add_task calls.
SubmittedEvent(q) ==
    [level |-> "INFO", event |-> "complaint.submitted",
     message |-> "Complaint submitted and forwarded to Service Bus",
     bookingId |-> StrUUID(ParseUUID(q.payload.bookingId)),
     serviceBusQueue |-> QueueName, timestamp |-> IsoFormat(q.ts)]

FailedEventAsSubmitted(q) ==
    [level |-> "INFO", event |-> "complaint.submitted",
     message |-> "Failed to submit complaint",
     bookingId |-> StrUUID(ParseUUID(q.payload.bookingId)),
     serviceBusQueue |-> QueueName]

FailedEvent(q) ==
    [level |-> "ERROR", event |-> "complaint.failed",
     message |-> "Failed to submit complaint",
     bookingId |-> StrUUID(ParseUUID(q.payload.bookingId)),
     serviceBusQueue |-> QueueName]

ScheduleUnchecked(q, ev) ==
    LET unified_logs == get_unified_log_sender IN
    IF unified_logs # NoNotifier
    THEN [q |-> [q EXCEPT !.tasks = Append(@, ev)], raised |-> FALSE]
    ELSE [q |-> q, raised |-> TRUE]

ScheduleRaises(q, ev) ==
    LET unified_logs == get_unified_log_sender IN
    IF unified_logs # NoNotifier
    THEN [q |-> q, raised |-> TRUE]
    ELSE [q |-> q, raised |-> FALSE]

\* unified_logs = get_unified_log_sender(); if it is not None, add_task.
\* raised: whether these lines raise.
Schedule(q, ev) ==
    LET unified_logs == get_unified_log_sender IN
    IF unified_logs # NoNotifier
    THEN [q |-> [q EXCEPT !.tasks = Append(@, ev)], raised |-> FALSE]
    ELSE [q |-> q, raised |-> FALSE]

UnhandledResp == [status |-> 500, detail |-> "Internal Server Error"]

RespondAwaitsAudit(q) ==
    LET ok == Schedule(q, SubmittedEvent(q))
        ko == Schedule(q, FailedEvent(q))
    IN
    IF q.exc = NoExc
    THEN [ok.q EXCEPT !.pc = "done", !.via = NoHandle, !.target = NoHandle,
                      !.ran = Len(ok.q.tasks), !.audited = ok.q.tasks,
                      !.resp = ComplaintResponse(ParseUUID(q.payload.bookingId), q.ts)]
    ELSE [ko.q EXCEPT !.pc = "done", !.via = NoHandle, !.target = NoHandle,
                      !.ran = Len(ko.q.tasks), !.audited = ko.q.tasks,
                      !.resp = Resp500(q.exc)]

\* The end of the handler.  With no exception pending the try block goes
\* on: audit event scheduled, ComplaintResponse returned.  An exception
\* pending or raised there reaches the except block: failure event
\* scheduled, HTTPException(500) raised; an exception raised in the except
\* block itself leaves the handler unhandled.
Respond(q) ==
    LET ok == Schedule(q, SubmittedEvent(q))
        ko == Schedule(q, FailedEvent(q))
    IN
    IF q.exc = NoExc /\ ~ok.raised
    THEN [ok.q EXCEPT !.pc = "done", !.via = NoHandle, !.target = NoHandle,
                      !.resp = ComplaintResponse(ParseUUID(q.payload.bookingId), q.ts)]
    ELSE IF ~ko.raised
    THEN [ko.q EXCEPT !.pc = "done", !.via = NoHandle, !.target = NoHandle,
                      !.resp = Resp500(q.exc)]
    ELSE [q EXCEPT !.pc = "done", !.via = NoHandle, !.target = NoHandle,
                   !.resp = UnhandledResp]

\* __aexit__ -> disconnect(): close() is awaited on whatever _client holds
\* now; with no client it is a no-op and the handler goes on.
disconnect(q, cl) ==
    IF cl # NoHandle
    THEN [q EXCEPT !.pc = "disconnecting", !.target = cl,
                   !.trace = Append(@, "disconnect")]
    ELSE Respond(q)

\* A request arrives and runs up to its first suspension.  The framework
\* builds ComplaintRequest from the payload and answers 422 without calling
\* the handler when that fails; otherwise the handler takes the timestamp,
\* connect()s, enters send_complaint (not-connected check, message body,
\* get_queue_sender) and suspends opening the queue sender.  Requests are
\* numbered in order of arrival.
Receive(r, p, outcome) ==
    /\ req[r].pc = "idle"
    /\ IF r = 1 THEN TRUE ELSE req[r - 1].pc # "idle"
    /\ LET errs == ComplaintRequestErrors(p)
           c == connect(client, r, outcome)
           q0 == [req[r] EXCEPT !.payload = p, !.ts = now,
                                !.trace = IF outcome = "ok" THEN <<"connect">>
                                          ELSE <<"connect", "client_error">>]
       IN
       IF errs # {}
       THEN /\ outcome = "ok"
            /\ req' = [req EXCEPT ![r] =
                         [@ EXCEPT !.pc = "done", !.payload = p, !.resp = Resp422(errs)]]
            /\ UNCHANGED <<client, handles, now>>
       ELSE /\ client' = c.client
            /\ handles' = IF c.created
                          THEN [handles EXCEPT ![r] = [state |-> "open", closes |-> 0]]
                          ELSE handles
            /\ req' = [req EXCEPT ![r] =
                 IF c.raised # NoExc
                 THEN Respond([q0 EXCEPT !.exc = c.raised,
                                         !.trace = Append(@, "connect_raised")])
                 ELSE IF c.client = NoHandle
                 THEN disconnect([q0 EXCEPT !.exc = NotConnected,
                                            !.trace = @ \o <<"send_complaint", "send_raised">>],
                                 c.client)
                 ELSE [q0 EXCEPT !.pc = "opening", !.via = c.client,
                                 !.trace = Append(@, "send_complaint")]]
            /\ now' = now + 1
    /\ health' = NoResp /\ home' = NoResp
    /\ UNCHANGED <<unifiedLogs, api>>

\* The queue sender's __aenter__ completes; on success the message is built
\* and send_messages is called.
SenderOpen(r, outcome) ==
    /\ req[r].pc = "opening"
    /\ outcome \in TransportOutcomes(req[r].via, OpenErrors)
    /\ req' = [req EXCEPT ![r] =
         IF outcome = "ok"
         THEN [@ EXCEPT !.pc = "sending", !.trace = Append(@, "send_messages")]
         ELSE disconnect([@ EXCEPT !.exc = Exc("send", outcome),
                                   !.trace = @ \o <<"transport_error", "send_raised">>],
                         client)]
    /\ health' = NoResp /\ home' = NoResp
    /\ UNCHANGED <<client, handles, now, unifiedLogs, api>>

SendMessagesRetry(r, outcome) ==
    /\ req[r].pc = "sending"
    /\ outcome \in TransportOutcomes(req[r].via, SendErrors)
    /\ req' = [req EXCEPT ![r] =
         IF outcome = "ok"
         THEN [@ EXCEPT !.pc = "sender_exit",
                        !.sent = Append(@, ServiceBusMessage(req[r]))]
         ELSE IF Len(req[r].trace) < 6
         THEN [@ EXCEPT !.trace = @ \o <<"transport_error", "send_messages">>]
         ELSE [@ EXCEPT !.pc = "sender_exit", !.exc = Exc("send", outcome),
                        !.trace = Append(@, "transport_error")]]
    /\ health' = NoResp /\ home' = NoResp
    /\ UNCHANGED <<client, handles, now, unifiedLogs, api>>

\* send_messages completes: the message is on the queue, or it raised.
SendMessages(r, outcome) ==
    /\ req[r].pc = "sending"
    /\ outcome \in TransportOutcomes(req[r].via, SendErrors)
    /\ req' = [req EXCEPT ![r] =
         IF outcome = "ok"
         THEN [@ EXCEPT !.pc = "sender_exit",
                        !.sent = Append(@, ServiceBusMessage(req[r]))]
         ELSE [@ EXCEPT !.pc = "sender_exit", !.exc = Exc("send", outcome),
                        !.trace = Append(@, "transport_error")]]
    /\ health' = NoResp /\ home' = NoResp
    /\ UNCHANGED <<client, handles, now, unifiedLogs, api>>

\* The queue sender's __aexit__ completes; send_complaint returns or
\* re-raises, and complaint_sender.__aexit__ starts disconnect().
SenderExit(r, outcome) ==
    /\ req[r].pc = "sender_exit"
    /\ LET e == IF outcome = "ok" THEN req[r].exc ELSE Exc("send", outcome)
           ev == IF outcome = "ok" THEN <<>> ELSE <<"transport_error">>
           re == IF e = NoExc THEN <<"send_ok">> ELSE <<"send_raised">>
       IN req' = [req EXCEPT ![r] =
                    disconnect([@ EXCEPT !.exc = e, !.trace = @ \o ev \o re], client)]
    /\ health' = NoResp /\ home' = NoResp
    /\ UNCHANGED <<client, handles, now, unifiedLogs, api>>

\* _client.close() completes on the handle disconnect() read (a handle is
\* "closed" once close() has been called on it, whether or not the call
\* raised); the handler then returns 201 or reaches its except block.
ClientClose(r, outcome) ==
    /\ req[r].pc = "disconnecting"
    /\ handles' = [handles EXCEPT ![req[r].target] =
                     [state |-> "closed", closes |-> @.closes + 1]]
    /\ req' = [req EXCEPT ![r] =
         IF outcome = "ok"
         THEN Respond(@)
         ELSE Respond([@ EXCEPT !.exc = Exc("close", outcome),
                                !.trace = Append(@, "disconnect_raised")])]
    /\ health' = NoResp /\ home' = NoResp
    /\ UNCHANGED <<client, now, unifiedLogs, api>>

health_check_probe ==
    /\ health' = IF client # NoHandle /\ handles[client].state = "closed"
                 THEN [status |-> 503, health |-> "unhealthy",
                       service |-> AppName, version |-> AppVersion]
                 ELSE HealthResponse
    /\ home' = NoResp
    /\ UNCHANGED <<req, client, handles, now, unifiedLogs, api>>

\* GET /api/v1/health
health_check ==
    /\ health' = HealthResponse /\ home' = NoResp
    /\ UNCHANGED <<req, client, handles, now, unifiedLogs, api>>

\* A background task of a completed request runs: unified_logs.send puts
\* the event on the unified log queue, or fails, logs and returns.
AuditSend(r, outcome) ==
    /\ req[r].pc = "done"
    /\ req[r].ran < Len(req[r].tasks)
    /\ req' = [req EXCEPT ![r] =
         [@ EXCEPT !.ran = @ + 1,
                   !.audited = IF outcome = "ok"
                               THEN Append(@, req[r].tasks[req[r].ran + 1])
                               ELSE @]]
    /\ health' = NoResp /\ home' = NoResp
    /\ UNCHANGED <<client, handles, now, unifiedLogs, api>>

Next ==
    \/ \E r \in Req, p \in Payloads, o \in {"ok"} \cup ConnectErrors : Receive(r, p, o)
    \/ \E r \in Req, o \in {"ok"} \cup OpenErrors : SenderOpen(r, o)
    \/ \E r \in Req, o \in {"ok"} \cup SendErrors : SendMessages(r, o)
    \/ \E r \in Req, o \in {"ok"} \cup CloseErrors : SenderExit(r, o)
    \/ \E r \in Req, o \in {"ok"} \cup CloseErrors : ClientClose(r, o)
    \/ health_check

Spec == Init /\ [][Next]_vars

\* The service with unified logging configured or not: the requests and the
\* background tasks they schedule.
AuditPayloads ==
    {p \in Payloads : p.description.len = MinLength /\ p.bookingId.form # "absent"}

NextAudit ==
    \/ \E r \in Req, p \in AuditPayloads, o \in {"ok"} \cup ConnectErrors : Receive(r, p, o)
    \/ \E r \in Req, o \in {"ok"} \cup OpenErrors : SenderOpen(r, o)
    \/ \E r \in Req, o \in {"ok"} \cup SendErrors : SendMessages(r, o)
    \/ \E r \in Req, o \in {"ok"} \cup CloseErrors : SenderExit(r, o)
    \/ \E r \in Req, o \in {"ok"} \cup CloseErrors : ClientClose(r, o)
    \/ \E r \in Req, o \in {"ok"} \cup AuditErrors : AuditSend(r, o)

SpecAudit == InitWith(BOOLEAN) /\ [][NextAudit]_vars

\* Submissions whose payloads carry other fields.
ExtraPayloads ==
    {p \in [bookingId : BookingIds, description : Descriptions, extra : Extras] :
        p.description.len = MinLength /\ p.bookingId.form # "absent"}

NextExtra ==
    \/ \E r \in Req, p \in ExtraPayloads, o \in {"ok"} \cup ConnectErrors : Receive(r, p, o)
    \/ \E r \in Req, o \in {"ok"} \cup OpenErrors : SenderOpen(r, o)
    \/ \E r \in Req, o \in {"ok"} \cup SendErrors : SendMessages(r, o)
    \/ \E r \in Req, o \in {"ok"} \cup CloseErrors : SenderExit(r, o)
    \/ \E r \in Req, o \in {"ok"} \cup CloseErrors : ClientClose(r, o)

SpecExtra == Init /\ [][NextExtra]_vars

\* Valid submissions to a healthy broker: connect succeeds, and an operation
\* on an open handle succeeds; only an operation on a handle that has been
\* closed can raise.
Healthy(h, outcome) == handles[h].state = "open" => outcome = "ok"
ValidSubmissions == {p \in Payloads : ComplaintRequestErrors(p) = {}}

NextHealthy ==
    \/ \E r \in Req, p \in ValidSubmissions : Receive(r, p, "ok")
    \/ \E r \in Req, o \in {"ok"} \cup OpenErrors :
          SenderOpen(r, o) /\ Healthy(req[r].via, o)
    \/ \E r \in Req, o \in {"ok"} \cup SendErrors :
          SendMessages(r, o) /\ Healthy(req[r].via, o)
    \/ \E r \in Req, o \in {"ok"} \cup CloseErrors :
          SenderExit(r, o) /\ Healthy(req[r].via, o)
    \/ \E r \in Req, o \in {"ok"} \cup CloseErrors :
          ClientClose(r, o) /\ Healthy(req[r].target, o)

SpecHealthy == Init /\ [][NextHealthy]_vars

\* ------------------------------------------- the sender's methods, called
\* directly by one caller that awaits each call before making the next.
MaxCalls == 3
ApiArgs == {p \in Payloads : ComplaintRequestErrors(p) = {}}
CanCall == Len(api.calls) < MaxCalls
Called(op, raised) == [api EXCEPT !.calls = Append(@, [op |-> op, raised |-> raised])]

\* The handle the next successful from_connection_string returns.
FreshHandle ==
    CHOOSE h \in Req : /\ handles[h].state = "absent"
                       /\ \A k \in Req : k < h => handles[k].state # "absent"

\* await sender.connect()
ApiConnect(outcome) ==
    /\ CanCall
    /\ \E h \in Req : handles[h].state = "absent"
    /\ LET c == connect(client, FreshHandle, outcome) IN
       /\ client' = c.client
       /\ handles' = IF c.created
                     THEN [handles EXCEPT ![FreshHandle] = [state |-> "open", closes |-> 0]]
                     ELSE handles
       /\ api' = Called("connect", c.raised)
    /\ home' = NoResp
    /\ UNCHANGED <<req, now, health, unifiedLogs>>

ApiDisconnectUnchecked(outcome) ==
    /\ CanCall
    /\ IF client # NoHandle
       THEN /\ handles' = [handles EXCEPT ![client] =
                             [state |-> "closed", closes |-> @.closes + 1]]
            /\ api' = Called("disconnect",
                             IF outcome = "ok" THEN NoExc ELSE Exc("close", outcome))
       ELSE /\ outcome = "ok"
            /\ handles' = handles
            /\ api' = Called("disconnect", Exc("close", "'NoneType' object has no attribute 'close'"))
    /\ home' = NoResp
    /\ UNCHANGED <<req, client, now, health, unifiedLogs>>

\* await sender.disconnect(): close() is awaited on the handle the sender
\* holds, if it holds one; _client is left as it is.
ApiDisconnect(outcome) ==
    /\ CanCall
    /\ IF client # NoHandle
       THEN /\ handles' = [handles EXCEPT ![client] =
                             [state |-> "closed", closes |-> @.closes + 1]]
            /\ api' = Called("disconnect",
                             IF outcome = "ok" THEN NoExc ELSE Exc("close", outcome))
       ELSE /\ outcome = "ok"
            /\ handles' = handles
            /\ api' = Called("disconnect", NoExc)
    /\ home' = NoResp
    /\ UNCHANGED <<req, client, now, health, unifiedLogs>>

ApiSendComplaintUnchecked(p, outcome) ==
    /\ CanCall
    /\ IF client = NoHandle
       THEN /\ outcome = "ok"
            /\ api' = Called("send_complaint",
                             Exc("send", "'NoneType' object has no attribute 'get_queue_sender'"))
       ELSE /\ outcome \in TransportOutcomes(client, OpenErrors \cup SendErrors \cup CloseErrors)
            /\ api' = [Called("send_complaint",
                              IF outcome = "ok" THEN NoExc ELSE Exc("send", outcome))
                         EXCEPT !.senders = Append(@, client),
                                !.sent = IF outcome \in {"ok"} \cup CloseErrors
                                         THEN Append(@, ServiceBusMessage([payload |-> p, ts |-> now]))
                                         ELSE @]
    /\ home' = NoResp
    /\ UNCHANGED <<req, client, handles, now, health, unifiedLogs>>

\* await sender.send_complaint(booking_id, description, timestamp): the
\* not-connected check, then get_queue_sender, the sender's __aenter__,
\* send_messages and the sender's __aexit__; an error of the last comes
\* after the message was accepted.
ApiSendComplaint(p, outcome) ==
    /\ CanCall
    /\ IF client = NoHandle
       THEN /\ outcome = "ok"
            /\ api' = Called("send_complaint", NotConnected)
       ELSE /\ outcome \in TransportOutcomes(client, OpenErrors \cup SendErrors \cup CloseErrors)
            /\ api' = [Called("send_complaint",
                              IF outcome = "ok" THEN NoExc ELSE Exc("send", outcome))
                         EXCEPT !.senders = Append(@, client),
                                !.sent = IF outcome \in {"ok"} \cup CloseErrors
                                         THEN Append(@, ServiceBusMessage([payload |-> p, ts |-> now]))
                                         ELSE @]
    /\ home' = NoResp
    /\ UNCHANGED <<req, client, handles, now, health, unifiedLogs>>

\* RedirectResponse(url="/docs"): status_code is left at its default.
RedirectStatus == 307
RedirectResponse(url) == [status |-> RedirectStatus, location |-> url]

rootProbesSender ==
    /\ home' = IF client # NoHandle /\ handles[client].state = "open"
               THEN RedirectResponse("/docs")
               ELSE [status |-> 503, location |-> ""]
    /\ UNCHANGED <<req, client, handles, now, health, unifiedLogs, api>>

\* GET /
root ==
    /\ home' = RedirectResponse("/docs")
    /\ UNCHANGED <<req, client, handles, now, health, unifiedLogs, api>>

NextSender ==
    \/ \E o \in {"ok"} \cup ConnectErrors : ApiConnect(o)
    \/ \E o \in {"ok"} \cup CloseErrors : ApiDisconnect(o)
    \/ \E p \in ApiArgs, o \in {"ok"} \cup OpenErrors \cup SendErrors \cup CloseErrors :
          ApiSendComplaint(p, o)
    \/ root

SenderSpec == Init /\ [][NextSender]_vars

\* -------------------------------------------------------------- properties
Done(r) == req[r].pc = "done"
Has(r, ev) == \E i \in DOMAIN req[r].trace : req[r].trace[i] = ev
Count(r, ev) == Cardinality({i \in DOMAIN req[r].trace : req[r].trace[i] = ev})
Arrives(r) == req[r].pc = "idle" /\ req'[r].pc # "idle"
NoQueueInteraction(r) ==
    /\ req'[r].trace = <<>>
    /\ req'[r].sent = <<>>
    /\ client' = client
    /\ handles' = handles
FixedDetail == "Failed to submit complaint. Please try again later."

\* C1: a request whose bookingId is missing or not a valid UUID is answered
\* 422 in the step it arrives, with no connect, no send and the sender's
\* state (client, handles) unchanged.
C1_InvalidBookingIdRejected ==
    [][\A r \in Req :
         (Arrives(r) /\ req'[r].payload.bookingId.form \in {"absent", "malformed"})
         => /\ req'[r].pc = "done"
            /\ req'[r].resp.status = 422
            /\ NoQueueInteraction(r)]_vars

C1_Witness ==
    \E r \in Req :
        /\ Done(r) /\ req[r].payload.bookingId.form = "malformed"
        /\ req[r].payload.description = [kind |-> "str", len |-> 1]
        /\ req[r].resp.status = 422
        /\ client # NoHandle

\* C2: with a valid bookingId the description is accepted exactly when its
\* length is in [1, 2000]: absent, length 0 or length >= 2001 is answered
\* 422 with no connect and no send; lengths 1..2000 enter the handler, which
\* connects and goes on to the send.
C2_DescriptionRange ==
    [][\A r \in Req :
         (Arrives(r) /\ req'[r].payload.bookingId.form \notin {"absent", "malformed"})
         => LET d == req'[r].payload.description IN
            IF d.kind = "str" /\ d.len >= 1 /\ d.len <= 2000
            THEN /\ req'[r].resp.status # 422
                 /\ req'[r].trace[1] = "connect"
                 /\ \/ req'[r].pc = "opening" /\ req'[r].trace[2] = "send_complaint"
                    \/ req'[r].trace[2] = "client_error"
            ELSE /\ req'[r].pc = "done"
                 /\ req'[r].resp.status = 422
                 /\ NoQueueInteraction(r)]_vars

C2_Witness ==
    \E r1, r2 \in Req :
        /\ req[r1].payload.description = [kind |-> "str", len |-> 2000]
        /\ Len(req[r1].sent) = 1
        /\ req[r2].payload.bookingId.form = "upper"
        /\ req[r2].payload.description = [kind |-> "str", len |-> 2001]
        /\ req[r2].resp.status = 422

ValidPayload(p) ==
    /\ p.bookingId.form \notin {"absent", "malformed"}
    /\ p.description.kind = "str" /\ p.description.len >= 1 /\ p.description.len <= 2000

WellFormedMessage(r, m) ==
    /\ m.body.bookingId = [form |-> "canonical", val |-> req[r].payload.bookingId.val]
    /\ m.body.description = req[r].payload.description
    /\ m.content_type = "application/json"

\* C3 as stated: every completed request with a valid input has sent exactly
\* one message, with the input's bookingId (string form) and description and
\* content type application/json.
C3_EveryValidInputSendsOne ==
    \A r \in Req :
        (Done(r) /\ ValidPayload(req[r].payload))
        => Len(req[r].sent) = 1 /\ WellFormedMessage(r, req[r].sent[1])

\* C3 amended: a request acknowledged with 201 has sent exactly one message;
\* no request sends more than one; every message sent carries the string
\* form of the input UUID, the input description and application/json.
C3_AcknowledgedSendsOne ==
    \A r \in Req :
        /\ (Done(r) /\ req[r].resp.status = 201) => Len(req[r].sent) = 1
        /\ Len(req[r].sent) <= 1
        /\ \A i \in DOMAIN req[r].sent : WellFormedMessage(r, req[r].sent[i])

C3_Witness ==
    \E r \in Req :
        /\ Done(r) /\ req[r].resp.status = 201
        /\ req[r].payload.bookingId.form = "upper"
        /\ Len(req[r].sent) = 1
        /\ req[r].sent[1].body.bookingId.form = "canonical"

\* C4: no retry: a request calls send_messages at most once and puts at most
\* one message on the queue, whatever fails; a request whose send raised is
\* never back at the send.
C4_NoRetry ==
    \A r \in Req :
        /\ Count(r, "send_messages") <= 1
        /\ Len(req[r].sent) <= 1
        /\ Has(r, "transport_error") => req[r].pc \in {"sender_exit", "disconnecting", "done"}

C4_Witness ==
    \E r \in Req :
        /\ Done(r) /\ req[r].resp.status = 500
        /\ Count(r, "send_messages") = 1
        /\ Has(r, "transport_error")
        /\ req[r].sent = <<>>

\* C5: when the transport raised during the send of a validated request, the
\* response is 500 with the fixed detail, whatever the error was.
C5_SendFailureIsGeneric500 ==
    \A r \in Req :
        (Done(r) /\ Has(r, "transport_error"))
        => req[r].resp = [status |-> 500, detail |-> FixedDetail]

C5_Witness ==
    \E r1, r2 \in Req :
        /\ Done(r1) /\ Done(r2)
        /\ req[r1].exc = Exc("send", "broker unreachable")
        /\ req[r2].exc = Exc("send", "message rejected")
        /\ req[r1].resp = req[r2].resp
        /\ req[r1].resp.status = 500

\* C6: when connect fails, the request ends 500 with the fixed detail, no
\* send is attempted, and connect re-raised the connection error (it is the
\* exception the handler caught).
C6_ConnectFailure ==
    \A r \in Req :
        Has(r, "client_error")
        => /\ Done(r)
           /\ req[r].resp = [status |-> 500, detail |-> FixedDetail]
           /\ req[r].trace = <<"connect", "client_error", "connect_raised">>
           /\ req[r].sent = <<>>
           /\ req[r].exc.kind = "connect"
           /\ req[r].exc.text \in ConnectErrors

C6_Witness ==
    \E r \in Req :
        /\ Done(r) /\ Has(r, "client_error") /\ req[r].resp.status = 500
        /\ client # NoHandle /\ client # r

\* C7: every completed request took one of the three paths: rejected with
\* 422 before the handler; 201 after send_complaint returned; 500 after the
\* connect or the send failed.  In particular a request whose send succeeded
\* ends with 201.
C7_ThreePaths ==
    \A r \in Req :
        Done(r)
        => \/ req[r].resp.status = 422 /\ req[r].trace = <<>>
           \/ req[r].resp.status = 201 /\ Has(r, "send_ok")
           \/ /\ req[r].resp.status = 500
              /\ ~Has(r, "send_ok")
              /\ Has(r, "connect_raised") \/ Has(r, "send_raised")

\* C8: the client handle of a request is its own for the whole scope: while
\* the request is between connect and disconnect the sender still holds the
\* handle it connected, and the handle its disconnect closes is that handle.
C8_NoSharedHandle ==
    \A r \in Req :
        /\ req[r].pc \in {"opening", "sending", "sender_exit"}
           => client = r /\ req[r].via = r
        /\ req[r].pc = "disconnecting" => req[r].target = r

\* C9: a completed request that connected called send_complaint after the
\* connect and disconnect after that, and the handle it opened is closed.
C9_ScopedAcquisition ==
    \A r \in Req :
        (Done(r) /\ handles[r].state # "absent")
        => /\ req[r].trace[1] = "connect"
           /\ req[r].trace[2] = "send_complaint"
           /\ Count(r, "disconnect") = 1
           /\ handles[r].state = "closed"

\* C10: every health response is 200 'healthy' with the configured name and
\* version, in whatever state the sender and the requests are, and answering
\* it changes nothing of the sender or the requests.
C10_HealthAlways200 ==
    [][health' # NoResp
       => /\ health' = [status |-> 200, health |-> "healthy",
                        service |-> AppName, version |-> AppVersion]
          /\ UNCHANGED <<req, client, handles, now>>]_vars

C10_Witness ==
    /\ health # NoResp
    /\ client # NoHandle /\ handles[client].state = "closed"
    /\ \E r \in Req : Done(r) /\ req[r].resp.status = 500
    /\ \E r \in Req : req[r].pc = "sending"

HasIn(q, ev) == \E i \in DOMAIN q.trace : q.trace[i] = ev

\* The response the request's own history calls for, audit left aside.
PrimaryResponseOf(q) ==
    IF q.trace = <<>> THEN q.resp.status = 422
    ELSE IF HasIn(q, "send_ok") /\ ~HasIn(q, "disconnect_raised")
    THEN q.resp = [status |-> 201, message |-> "Complaint submitted successfully",
                   bookingId |-> [form |-> "canonical", val |-> q.payload.bookingId.val],
                   timestamp |-> q.ts]
    ELSE q.resp = [status |-> 500, detail |-> FixedDetail]

C12_AuditOffCriticalPath ==
    [][\A r \in Req :
         /\ (req[r].resp = NoResp /\ req'[r].resp # NoResp)
            => req'[r].ran = 0 /\ req'[r].audited = <<>>
         /\ (req'[r].ran # req[r].ran \/ req'[r].audited # req[r].audited)
            => /\ Done(r) /\ req[r].resp # NoResp
               /\ req'[r].resp = req[r].resp
               /\ req'[r].sent = req[r].sent
         /\ req'[r].tasks # req[r].tasks => ~Done(r) /\ req'[r].pc = "done"]_vars

C12_Witness ==
    \E r1, r2 \in Req :
        /\ Done(r1) /\ req[r1].resp.status = 201 /\ Len(req[r1].audited) = 1
        /\ Done(r2) /\ req[r2].resp.status = 201
        /\ Len(req[r2].tasks) = 1 /\ req[r2].ran = 0

\* C13: with unified logging configured, a 201 request has scheduled exactly
\* one event, INFO complaint.submitted; a 500 request exactly one, ERROR
\* complaint.failed; a 422 request and a request still in flight none.
C13_EventMatchesOutcome ==
    unifiedLogs =>
    \A r \in Req :
        /\ Len(req[r].tasks) <= 1
        /\ ~Done(r) => req[r].tasks = <<>>
        /\ (Done(r) /\ req[r].resp.status = 422) => req[r].tasks = <<>>
        /\ (Done(r) /\ req[r].resp.status = 201)
           => /\ Len(req[r].tasks) = 1
              /\ req[r].tasks[1].level = "INFO"
              /\ req[r].tasks[1].event = "complaint.submitted"
        /\ (Done(r) /\ req[r].resp.status = 500)
           => /\ Len(req[r].tasks) = 1
              /\ req[r].tasks[1].level = "ERROR"
              /\ req[r].tasks[1].event = "complaint.failed"

C13_Witness ==
    /\ unifiedLogs
    /\ \E r1, r2 \in Req :
         /\ Done(r1) /\ req[r1].resp.status = 201 /\ Len(req[r1].tasks) = 1
         /\ Done(r2) /\ req[r2].resp.status = 500 /\ Len(req[r2].tasks) = 1

\* C14: with unified logging not configured no event is scheduled, run or
\* sent for any request, and requests end as their send ended: 201 with one
\* message after a good send and disconnect, the fixed 500 otherwise.
C14_UnconfiguredNoAudit ==
    ~unifiedLogs =>
    \A r \in Req :
        /\ req[r].tasks = <<>> /\ req[r].ran = 0 /\ req[r].audited = <<>>
        /\ (Done(r) /\ Has(r, "send_ok") /\ ~Has(r, "disconnect_raised"))
           => req[r].resp.status = 201 /\ Len(req[r].sent) = 1
        /\ (Done(r) /\ req[r].trace # <<>>
                    /\ ~(Has(r, "send_ok") /\ ~Has(r, "disconnect_raised")))
           => req[r].resp = [status |-> 500, detail |-> FixedDetail]

C14_Witness ==
    /\ ~unifiedLogs
    /\ \E r1, r2 \in Req :
         /\ Done(r1) /\ req[r1].resp.status = 201 /\ req[r1].tasks = <<>>
         /\ Done(r2) /\ req[r2].resp.status = 500 /\ req[r2].tasks = <<>>

LastCall == api.calls[Len(api.calls)]
Calls(op) == Len(api'.calls) = Len(api.calls) + 1 /\ api'.calls[Len(api'.calls)].op = op

\* C15: send_complaint on a sender that holds no client raises 'Service Bus
\* client is not connected', asks the transport for no queue sender, sends
\* nothing, and leaves _client and every handle as they were.
C15_SendUnconnected ==
    [][(Calls("send_complaint") /\ client = NoHandle)
       => /\ api'.calls[Len(api'.calls)].raised.text = "Service Bus client is not connected"
          /\ api'.senders = api.senders
          /\ api'.sent = api.sent
          /\ client' = client /\ handles' = handles]_vars

C15_Witness ==
    /\ api.calls # <<>>
    /\ LastCall.op = "send_complaint"
    /\ LastCall.raised.kind = "not_connected"
    /\ client = NoHandle

\* C16: disconnect on a sender that holds no client raises nothing, closes
\* no handle, and leaves _client and every handle as they were.
C16_DisconnectNoHandle ==
    [][(Calls("disconnect") /\ client = NoHandle)
       => /\ api'.calls[Len(api'.calls)].raised.kind = "none"
          /\ client' = client /\ handles' = handles
          /\ api'.senders = api.senders /\ api'.sent = api.sent]_vars

C16_Witness ==
    /\ api.calls # <<>>
    /\ LastCall.op = "disconnect"
    /\ client = NoHandle

\* C17: a disconnect that directly follows a disconnect closes nothing and
\* raises nothing, and no handle is ever closed more than once.
C17_DisconnectIdempotent ==
    [][(Calls("disconnect") /\ api.calls # <<>> /\ LastCall.op = "disconnect")
       => /\ handles' = handles
          /\ api'.calls[Len(api'.calls)].raised.kind = "none"
          /\ \A h \in Req : handles'[h].closes <= 1]_vars

\* Two requests ended alike in what the caller and the queue see.
SameOutcome(q1, q2) ==
    /\ q1.resp.status = q2.resp.status
    /\ q1.resp.status = 201
       => q1.resp.bookingId = q2.resp.bookingId /\ q1.resp.message = q2.resp.message
    /\ ~HasIn(q1, "transport_error") => Len(q1.sent) = Len(q2.sent)
    /\ \A i \in DOMAIN q1.sent \cap DOMAIN q2.sent :
         /\ q1.sent[i].body.bookingId = q2.sent[i].body.bookingId
         /\ q1.sent[i].body.description = q2.sent[i].body.description
         /\ q1.sent[i].content_type = q2.sent[i].content_type
         /\ q1.sent[i].queue = q2.sent[i].queue

\* C18: two requests whose payloads agree on bookingId and description are
\* both rejected or both handled, whatever other fields they carry, and when
\* connect, send and disconnect went the same way for both they end with the
\* same status, response bookingId and message and the same envelope (as
\* many messages when the transport raised nothing); the
\* envelope's timestamp is the clock value the handler read on arrival.
C18_ExtraFieldsIgnored ==
    [][/\ \A r \in Req :
            /\ (Arrives(r) /\ req'[r].trace # <<>>) => req'[r].ts = now
            /\ \A i \in DOMAIN req'[r].sent :
                 req'[r].sent[i].body.timestamp = [iso |-> req'[r].ts]
       /\ \A r1, r2 \in Req :
            (/\ req'[r1].pc = "done" /\ req'[r2].pc = "done"
             /\ req'[r1].payload.bookingId = req'[r2].payload.bookingId
             /\ req'[r1].payload.description = req'[r2].payload.description)
            => /\ (req'[r1].trace = <<>>) <=> (req'[r2].trace = <<>>)
               /\ req'[r1].trace = req'[r2].trace
                  => SameOutcome(req'[r1], req'[r2])]_vars

C18_Witness ==
    \E r1, r2 \in Req :
        /\ Done(r1) /\ Done(r2)
        /\ req[r1].payload.bookingId = req[r2].payload.bookingId
        /\ req[r1].payload.description = req[r2].payload.description
        /\ req[r1].payload.extra = {}
        /\ \E x \in req[r2].payload.extra : x.name = "timestamp"
        /\ req[r1].resp.status = 201 /\ req[r2].resp.status = 201
        /\ Len(req[r2].sent) = 1

\* C19: a request answered 201 has one message on the queue, and its
\* response carries the fixed text, the bookingId of that message and the
\* instant of that message's timestamp; the instant is taken before connect
\* (every request that reached connect has it).
C19_AckEchoesMessage ==
    \A r \in Req :
        /\ req[r].trace # <<>> => req[r].ts >= 1 /\ req[r].ts < now
        /\ (Done(r) /\ req[r].resp.status = 201)
           => /\ req[r].resp.message = "Complaint submitted successfully"
              /\ Len(req[r].sent) = 1
              /\ req[r].resp.bookingId = req[r].sent[1].body.bookingId
              /\ [iso |-> req[r].resp.timestamp] = req[r].sent[1].body.timestamp
              /\ req[r].resp.timestamp = req[r].ts

C19_Witness ==
    \E r1, r2 \in Req :
        /\ r1 # r2
        /\ Done(r1) /\ req[r1].resp.status = 201
        /\ Done(r2) /\ req[r2].resp.status = 201
        /\ req[r1].resp.timestamp # req[r2].resp.timestamp

C21_ConcurrentIndependent ==
    \A r \in Req :
        /\ Done(r) => req[r].resp.status = 201 /\ Len(req[r].sent) = 1
        /\ req[r].pc \in {"opening", "sending"} => handles[req[r].via].state = "open"

\* C22: once every request that arrived has completed, every client handle
\* a connect created has been closed exactly once.
C22_ClosedExactlyOnce ==
    (\A r \in Req : req[r].pc \in {"idle", "done"})
    => \A h \in Req : handles[h].state # "absent" => handles[h].closes = 1

\* C23: after a disconnect the sender holds no client handle, and a
\* send_complaint made after a disconnect with no successful connect in
\* between raises the not-connected error and asks for no queue sender.
C23_DisconnectReleases ==
    [][/\ Calls("disconnect") => client' = NoHandle
       /\ (/\ Calls("send_complaint")
           /\ \E i \in DOMAIN api.calls :
                /\ api.calls[i].op = "disconnect"
                /\ \A j \in DOMAIN api.calls :
                     j > i => ~(api.calls[j].op = "connect" /\ api.calls[j].raised.kind = "none"))
          => /\ api'.calls[Len(api'.calls)].raised.text = "Service Bus client is not connected"
             /\ api'.senders = api.senders
             /\ api'.sent = api.sent]_vars

====
